---- MODULE Spec2Model ----
(***************************************************************************)
(* A model of the ratsio client: the Core (NATS) connection engine with    *)
(* its subscription registry, inbound reader, heartbeat monitor, reconnect *)
(* and shutdown (src/src/nats_client), and the Streaming (STAN) overlay    *)
(* built on it (src/src/stan_client).                                      *)
(*                                                                         *)
(* Every `.await` on a lock that another task can hold across one of its   *)
(* own suspension points is a separate step.  Locks are not variables: who *)
(* holds which lock follows from the program counters (a guard lives from  *)
(* the line that takes it to the end of its scope).  The sink mutex        *)
(* (conn_sink) is only ever held for one write and is folded in the step   *)
(* that sends.                                                             *)
(***************************************************************************)
EXTENDS Integers, Sequences, FiniteSets, Bags, TLC

\* ------------------------------------------------------------------ bounds
MaxCalls == 2       \* API calls begun in one run
MaxSid == 1         \* sids generated by nuid::next() in one run
MaxMsgs == 2        \* MSG frames the server sends in one run
MaxConn == 2        \* TCP connections opened in one run (initial + reconnects)
\* the same three, for a run of the Streaming client (SpecStan)
StanMaxCalls == 2   \* Core requests begun in one run
StanMaxSid == 4     \* sids generated by nuid::next() in one run
StanMaxMsgs == 3    \* MSG frames the server sends in one run
\* try_connect
MaxUris == 2        \* uris in cluster_uris
MaxPasses == 3      \* passes over the addresses in one call
\* acknowledgements
MaxAcks == 2        \* ack handler invocations and acknowledge calls in one run

\* ------------------------------------------------------------- constants
InitialVersion == 1 \* client.rs:26  let version = 1;
EmptySid == 0       \* the empty string as a sid
Close == 0          \* ClosableMessage::Close in a sink; a message is its frame number

Sids == 1..(IF MaxSid > StanMaxSid THEN MaxSid ELSE StanMaxSid)
NeverSid == MaxSid + 1  \* a sid no subscribe call of a Core run ever returned
Conns == 1..MaxConn

\* Two caller tasks share the client: one subscribes, publishes and requests,
\* the other closes; both may call reconnect.
User == <<"c", 1>>
Admin == <<"c", 2>>
Callers == {User, Admin}
Reader(k) == <<"r", k>>
Readers == {Reader(k) : k \in Conns}
Monitor == <<"m", 0>>
\* The tasks of the Streaming client: the one that calls it, its heartbeat
\* task, and one forwarding task per streaming subscription.
Stan == <<"c", 3>>
Heartbeats == <<"h", 0>>
Fwd(s) == <<"f", s>>
CallTasks == Callers \cup {Stan}
Tasks == CallTasks \cup Readers \cup {Monitor, Heartbeats} \cup {Fwd(s) : s \in Sids}

VARIABLES
    state,              \* NatsClientInner.state
    subscriptions,      \* NatsClientInner.subscriptions: sid -> the stored Subscribe command
    sink,               \* per sid, everything ever put in its unbounded channel
    recv,               \* sids whose receiver half still exists
    held,               \* sids returned to the user by subscribe
    conn_sink,          \* NatsClientInner.conn_sink: the connection written to
    alive,              \* per connection, whether the socket is up
    nconn,              \* connections opened so far
    reconnect_version,  \* NatsClientInner.reconnect_version
    rver,               \* per reader, the version start() was given
    client_ref,         \* NatsClientInner.client_ref is Some
    server_info,        \* NatsClientInner.server_info: 0 (None) or the connection whose INFO is stored
    notified,           \* runs of NatsClient::on_disconnect (each calls every handler once)
    subscribe_on_reconnect, \* opts.subscribe_on_reconnect: "on" or "off", "unread" until first read
    wire,               \* bag of the commands handed to send_command
    arrived,            \* the sids of the MSG frames read from the sockets, in the order read
    pc,                 \* where each task is
    item,               \* per task, the frame (or reply) it is handling
    req,                \* per caller, the sid of the request in progress
    result,             \* per caller, what its last call returned
    snap,               \* per task in stop(), the registry keys when the call began
    nsid,               \* sids generated so far
    calls,              \* API calls begun so far
    closed,             \* some stop() has returned
    stan_pc,            \* where the task that uses the Streaming client is in it ("off": no such client)
    stan_subscriptions, \* StanClient.subscriptions: the sids with a record (each holds a sender)
    stan_sink,          \* per sid, everything ever put in its streaming channel
    stan_recv,          \* sids whose StanClosableReceiver was returned to the caller
    self_reference,     \* StanClient.self_reference is Some
    rd,                 \* per sid, the items its task (forwarder, heartbeats) took from the Core sink
    cluster_uris,       \* try_connect: the uris it was given, in declared order
    keep_retrying,      \* try_connect: its keep_retrying argument
    valid_addresses,    \* try_connect: the (uri, address) pairs it resolved
    try_pc,             \* where the call of try_connect is ("off": none in this run)
    next_addr,          \* try_connect: position in valid_addresses of the next connect
    pass,               \* try_connect: passes of the `for` loop begun
    attempts,           \* try_connect: every TcpStream::connect made, in order, with its outcome
    try_result,         \* try_connect: what it returned ("none" until it returns)
    manual_acks,        \* the manual_acks the caller gives to the streaming subscribe
    polled,             \* per sid, the items poll_next took from the streaming channel
    delivered,          \* the StanMessages poll_next returned, and what the caller did with each
    ack_tasks           \* the tasks spawned by ack handlers that have not published yet

vars == <<state, subscriptions, sink, recv, held, conn_sink, alive, nconn,
          reconnect_version, rver, client_ref, server_info, notified,
          subscribe_on_reconnect, wire, arrived, pc, item, req, result, snap,
          nsid, calls, closed, stan_pc, stan_subscriptions, stan_sink, stan_recv,
          self_reference, rd, cluster_uris, keep_retrying, valid_addresses, try_pc,
          next_addr, pass, attempts, try_result, manual_acks, polled, delivered,
          ack_tasks>>

\* ------------------------------------------------------------------- locks
\* stop() holds state.write() from line 214 to its return.
StateLockFree == \A t \in Tasks : pc[t] \notin {"stop2", "stop3"}
\* stop() holds subscriptions.lock() from line 221 to its return; every other
\* holder releases it within the step that takes it.
SubsLockFree == \A t \in Tasks : pc[t] # "stop3"
\* do_reconnect() holds client_ref.read() from line 263 to its return.
ClientRefReaders == {t \in Tasks : pc[t] \in {"rc2", "rc3", "rc5", "rc6"}}
\* the reader holds reconnect_version.read() (line 84) while it handles a frame.
VersionReaders == {t \in Readers : pc[t] \in {"reset", "route", "stop1", "stop2", "stop3"}}
\* monitor_heartbeat holds last_ping.read() (line 324) through on_disconnect (line 329).
LastPingReaders == {t \in Tasks : pc[t] \in {"m_od1t", "m_od2t"}}

\* ------------------------------------------------------------------ helpers
\* The bounds of the run: a Core run, or a run of the Streaming client.
CallBound == IF stan_pc = "off" THEN MaxCalls ELSE StanMaxCalls
SidBound == IF stan_pc = "off" THEN MaxSid ELSE StanMaxSid
MsgBound == IF stan_pc = "off" THEN MaxMsgs ELSE StanMaxMsgs
\* The sids MSG frames come for: any sid in a Core run; in a Streaming run the
\* broker has messages only for the sids it was sent a SUB for.
MsgSids == IF stan_pc = "off" THEN 1..MaxSid ELSE 1..nsid
\* The frames without a sid: in a Streaming run the broker sends no PING and
\* no second INFO.
ControlOps == IF stan_pc = "off" THEN {"PING", "INFO", "CLOSE"} ELSE {"CLOSE"}

Frame(op, sid, subject) ==
    [conn |-> conn_sink, op |-> op, sid |-> sid, subject |-> subject, ok |-> alive[conn_sink]]

\* send_command: the command goes to whatever conn_sink holds now; the write
\* fails when that socket is down.
send_ok == alive[conn_sink]
send_command(w, op, sid, subject) == w (+) SetToBag({Frame(op, sid, subject)})

\* futures mpsc: an unbounded FIFO; send fails (and enqueues nothing) once the
\* receiver is gone.
ChannelSendBug(q, m) == <<m>> \o q
ChannelSend(q, m) == Append(q, m)
SenderSend(sk, s, m) == IF s \in recv THEN [sk EXCEPT ![s] = ChannelSend(sk[s], m)] ELSE sk

\* What a call returned: after_close says that some stop() had returned when
\* the call began.
Ok(op) == [op |-> op, ok |-> TRUE, after_close |-> closed]
Err(op) == [op |-> op, ok |-> FALSE, after_close |-> closed]

\* ---------------------------------------------------------------------- Init
\* The state NatsClient::new returns in: connected on connection 1, the
\* reader of connection 1 and the heartbeat monitor spawned, client_ref set.
InitCore ==
    /\ state = "Connected"
    /\ subscriptions = <<>>
    /\ sink = [s \in Sids |-> <<>>]
    /\ recv = {}
    /\ held = {}
    /\ conn_sink = 1
    /\ alive = [k \in Conns |-> k = 1]
    /\ nconn = 1
    /\ reconnect_version = InitialVersion
    /\ rver = [k \in Conns |-> InitialVersion]
    /\ client_ref = TRUE
    /\ server_info = 0
    /\ notified = 0
    /\ subscribe_on_reconnect = "unread"
    /\ wire = EmptyBag
    /\ arrived = <<>>
    /\ pc = [t \in Tasks |-> IF t \in CallTasks THEN "idle"
                             ELSE IF t = Reader(1) THEN "read"
                             ELSE IF t = Monitor THEN "m_check"
                             ELSE "off"]
    /\ item = [t \in Tasks |-> 0]
    /\ req = [c \in CallTasks |-> 0]
    /\ result = [c \in CallTasks |-> [op |-> "none", ok |-> TRUE, after_close |-> FALSE]]
    /\ snap = [t \in Tasks |-> {}]
    /\ nsid = 0
    /\ calls = 0
    /\ closed = FALSE
    /\ stan_subscriptions = {}
    /\ stan_sink = [s \in Sids |-> <<>>]
    /\ stan_recv = {}
    /\ self_reference = FALSE
    /\ rd = [s \in Sids |-> 0]

\* No call of try_connect is in progress: the connection exists.
FactoryOff ==
    /\ cluster_uris = <<>>
    /\ keep_retrying = FALSE
    /\ valid_addresses = <<>>
    /\ try_pc = "off"
    /\ next_addr = 0
    /\ pass = 0
    /\ attempts = <<>>
    /\ try_result = "none"

\* No consumer of a streaming subscription is followed.
AcksOff ==
    /\ manual_acks = FALSE
    /\ polled = [s \in Sids |-> 0]
    /\ delivered = <<>>
    /\ ack_tasks = <<>>

\* A Core client used directly.
Init == InitCore /\ stan_pc = "off" /\ FactoryOff /\ AcksOff

\* groups of variables, for UNCHANGED
conn == <<conn_sink, alive, nconn, reconnect_version, rver>>
acks == <<manual_acks, polled, delivered, ack_tasks>>
stan == <<stan_pc, stan_subscriptions, stan_sink, stan_recv, self_reference, rd, acks>>
factory == <<cluster_uris, keep_retrying, valid_addresses, try_pc, next_addr, pass,
             attempts, try_result>>
misc == <<client_ref, server_info, notified, subscribe_on_reconnect, arrived, stan, factory>>
locals == <<item, req, snap>>

Remove(f, s) == [k \in DOMAIN f \ {s} |-> f[k]]
Return(c, r) == /\ result' = [result EXCEPT ![c] = r]
                /\ pc' = [pc EXCEPT ![c] = "idle"]
Begin(c) == /\ pc[c] = "idle"
            /\ calls < CallBound
            /\ calls' = calls + 1

\* ------------------------------------------------------- Core client calls
\* NatsClientInner::subscribe, lines 160-164: the key of the registry.
SubscribeSid(cmdSid, fresh) == IF cmdSid = EmptySid THEN fresh ELSE cmdSid

\* NatsClientInner::subscribe, lines 165-167: insert under the registry lock,
\* then send SUB with the command as the caller built it.
inner_subscribe(cmdSid) ==
    LET sid == SubscribeSid(cmdSid, nsid + 1)
        cmd == [sid |-> cmdSid, subject |-> nsid + 1]
    IN /\ SubsLockFree
       /\ nsid < SidBound
       /\ nsid' = nsid + 1
       /\ subscriptions' = (sid :> cmd) @@ subscriptions
       /\ wire' = send_command(wire, "SUB", cmd.sid, cmd.subject)
       /\ recv' = IF send_ok THEN recv \cup {sid} ELSE recv

\* NatsClient::subscribe: Subscribe { subject, ..Default::default() }; the sid
\* Default gives is either empty or a fresh nuid.
subscribe(c) ==
    /\ Begin(c)
    /\ \E cmdSid \in {EmptySid, nsid + 1} : inner_subscribe(cmdSid)
    /\ held' = IF send_ok THEN held \cup {nsid + 1} ELSE held
    /\ Return(c, IF send_ok THEN Ok("subscribe") ELSE Err("subscribe"))
    /\ UNCHANGED <<state, sink, conn, misc, locals, closed>>

\* NatsClientInner::un_subscribe, lines 175-184.
inner_un_subscribe_bug(s) ==
    /\ SubsLockFree
    /\ subscriptions' = IF s \in DOMAIN subscriptions THEN Remove(subscriptions, s)
                        ELSE subscriptions
    /\ sink' = IF s \in DOMAIN subscriptions THEN SenderSend(sink, s, Close) ELSE sink
    /\ wire' = send_command(wire, "UNSUB", s, 0)
inner_un_subscribe_keep(s) ==
    /\ SubsLockFree
    /\ IF s \in DOMAIN subscriptions
       THEN /\ subscriptions' = subscriptions
            /\ sink' = SenderSend(sink, s, Close)
            /\ wire' = send_command(wire, "UNSUB", s, 0)
       ELSE UNCHANGED <<subscriptions, sink, wire>>
inner_un_subscribe(s) ==
    /\ SubsLockFree
    /\ IF s \in DOMAIN subscriptions
       THEN /\ subscriptions' = Remove(subscriptions, s)
            /\ sink' = SenderSend(sink, s, Close)
            /\ wire' = send_command(wire, "UNSUB", s, 0)
       ELSE UNCHANGED <<subscriptions, sink, wire>>

un_subscribe(c, s) ==
    /\ Begin(c)
    /\ inner_un_subscribe(s)
    /\ Return(c, IF s \in DOMAIN subscriptions /\ ~send_ok
                 THEN Err("un_subscribe") ELSE Ok("un_subscribe"))
    /\ UNCHANGED <<state, recv, held, nsid, conn, misc, locals, closed>>

\* NatsClientInner::publish, lines 187-189, with on_disconnect run on a send error.
publish_bug(c) ==
    /\ Begin(c)
    /\ wire' = send_command(wire, "PUB", 0, 0)
    /\ Return(c, IF send_ok THEN Ok("publish") ELSE Err("publish"))
    /\ state' = IF send_ok THEN state ELSE "Disconnected"
    /\ UNCHANGED <<subscriptions, sink, recv, held, nsid, conn, misc, locals, closed>>
\* NatsClientInner::publish, lines 187-189.
publish(c) ==
    /\ Begin(c)
    /\ wire' = send_command(wire, "PUB", 0, 0)
    /\ Return(c, IF send_ok THEN Ok("publish") ELSE Err("publish"))
    /\ UNCHANGED <<state, subscriptions, sink, recv, held, nsid, conn, misc, locals, closed>>

\* NatsClientInner::request, lines 195-203: subscribe to the reply inbox.
request_subscribe(c) ==
    /\ Begin(c)
    /\ inner_subscribe(nsid + 1)
    /\ IF send_ok
       THEN /\ pc' = [pc EXCEPT ![c] = "rq_pub"]
            /\ req' = [req EXCEPT ![c] = nsid + 1]
            /\ result' = [result EXCEPT ![c] = [op |-> "request", ok |-> FALSE,
                                          after_close |-> closed]]
       ELSE /\ Return(c, Err("request"))
            /\ UNCHANGED req
    /\ UNCHANGED <<state, sink, held, conn, misc, item, snap, closed>>

\* line 204: the PUB; on a send error the function returns here.
request_publish(c) ==
    /\ pc[c] = "rq_pub"
    /\ wire' = send_command(wire, "PUB", 0, req[c])
    /\ IF send_ok
       THEN /\ pc' = [pc EXCEPT ![c] = "rq_wait"]
            /\ UNCHANGED <<recv, req, result>>
       ELSE /\ recv' = recv \ {req[c]}
            /\ req' = [req EXCEPT ![c] = 0]
            /\ Return(c, [result[c] EXCEPT !.ok = FALSE])
    /\ UNCHANGED <<state, subscriptions, sink, held, nsid, conn, misc, item, snap, calls, closed>>

\* line 205: subscription.next().await; NatsClosableReceiver turns the close
\* sentinel into the end of the stream (lines 363-368).
request_next(c) ==
    /\ pc[c] = "rq_wait"
    /\ sink[req[c]] # <<>>
    /\ item' = [item EXCEPT ![c] = Head(sink[req[c]])]
    /\ pc' = [pc EXCEPT ![c] = "rq_unsub"]
    /\ UNCHANGED <<state, subscriptions, sink, recv, held, wire, nsid, conn, misc, req, snap,
                   result, calls, closed>>

\* lines 206-210 without the un_subscribe of line 206.
request_finish_bug(c) ==
    /\ pc[c] = "rq_unsub"
    /\ recv' = recv \ {req[c]}
    /\ Return(c, [result[c] EXCEPT !.ok = (item[c] # Close)])
    /\ req' = [req EXCEPT ![c] = 0]
    /\ UNCHANGED <<state, subscriptions, sink, wire, held, nsid, conn, misc, item, snap,
                   calls, closed>>
\* lines 206-210: un_subscribe (its error dropped), then the reply or
\* RequestStreamClosed; the receiver is dropped with the function's frame.
request_finish(c) ==
    /\ pc[c] = "rq_unsub"
    /\ inner_un_subscribe(req[c])
    /\ recv' = recv \ {req[c]}
    /\ Return(c, [result[c] EXCEPT !.ok = (item[c] # Close)])
    /\ req' = [req EXCEPT ![c] = 0]
    /\ UNCHANGED <<state, held, nsid, conn, misc, item, snap, calls, closed>>

\* impl Stream for NatsClosableReceiver, lines 359-370: what the consumer of a
\* channel is given: the messages before the first close sentinel; the
\* sentinel ends the stream.
RECURSIVE Stream(_)
Stream(q) == IF q = <<>> \/ Head(q) = Close THEN <<>> ELSE <<Head(q)>> \o Stream(Tail(q))
StreamEnds(q) == \E i \in 1..Len(q) : q[i] = Close

\* ----------------------------------------------------------------- shutdown
\* NatsClient::close, lines 147-149: the call begins.
close(c) ==
    /\ Begin(c)
    /\ pc' = [pc EXCEPT ![c] = "stop1"]
    /\ snap' = [snap EXCEPT ![c] = DOMAIN subscriptions]
    /\ result' = [result EXCEPT ![c] = [op |-> "close", ok |-> FALSE,
                                          after_close |-> closed]]
    /\ UNCHANGED <<state, subscriptions, sink, recv, held, wire, nsid, conn, misc,
                   item, req, closed>>

\* NatsClientInner::stop, lines 214-218: take the state lock (kept to the
\* return), set Shutdown, clear on_reconnect.
StopState == "Shutdown"
stop_state(t) ==
    /\ pc[t] = "stop1"
    /\ StateLockFree
    /\ state' = StopState
    /\ pc' = [pc EXCEPT ![t] = "stop2"]
    /\ UNCHANGED <<subscriptions, sink, recv, held, wire, nsid, conn, misc, locals,
                   result, calls, closed>>

\* lines 221-230: under the registry lock (kept to the return), the close
\* sentinel and an UNSUB for every record, then clear.
StopSinksBug(sk) == sk
StopSinks(sk) == [s \in Sids |-> IF s \in DOMAIN subscriptions
                                 THEN SenderSend(sk, s, Close)[s] ELSE sk[s]]
stop_subscriptions(t) ==
    /\ pc[t] = "stop2"
    /\ SubsLockFree
    /\ sink' = StopSinks(sink)
    /\ wire' = wire (+) SetToBag({Frame("UNSUB", s, 0) : s \in DOMAIN subscriptions})
    /\ subscriptions' = <<>>
    /\ pc' = [pc EXCEPT ![t] = "stop3"]
    /\ UNCHANGED <<state, recv, held, nsid, conn, misc, locals, result, calls, closed>>

\* lines 231-234: client_ref.write() waits for every reader of client_ref;
\* drop the back-reference and return, releasing the three locks.
stop_client_ref(t) ==
    /\ pc[t] = "stop3"
    /\ ClientRefReaders = {}
    /\ client_ref' = FALSE
    /\ closed' = TRUE
    /\ pc' = [pc EXCEPT ![t] = IF t \in Readers THEN "read" ELSE "idle"]
    /\ result' = IF t \in Readers THEN result ELSE [result EXCEPT ![t].ok = TRUE]
    /\ UNCHANGED <<state, subscriptions, sink, recv, held, wire, nsid, conn,
                   server_info, notified, subscribe_on_reconnect, arrived,
                   locals, calls, stan, factory>>

\* ---------------------------------------------------------------- reconnect
\* NatsClientInner::reconnect, line 240: the only state an attempt starts from.
ReconnectEligibleBug(st) == st # "Shutdown"
ReconnectEligible(st) == st = "Disconnected"

\* NatsClientInner::reconnect, lines 238-245.
reconnect(c) ==
    /\ Begin(c)
    /\ StateLockFree
    /\ IF ReconnectEligible(state)
       THEN /\ state' = "Reconnecting"
            /\ pc' = [pc EXCEPT ![c] = "rc1"]
            /\ result' = [result EXCEPT ![c] = [op |-> "reconnect", ok |-> FALSE,
                                          after_close |-> closed]]
       ELSE /\ Return(c, Ok("reconnect"))
            /\ UNCHANGED state
    /\ UNCHANGED <<subscriptions, sink, recv, held, wire, nsid, conn, misc, locals, closed>>

\* do_reconnect, lines 263-268: client_ref.read(), kept to the return.
do_reconnect_ref(c) ==
    /\ pc[c] = "rc1"
    /\ pc' = [pc EXCEPT ![c] = IF client_ref THEN "rc2" ELSE "rc_err"]
    /\ UNCHANGED <<state, subscriptions, sink, recv, held, wire, nsid, conn, misc, locals,
                   result, calls, closed>>

\* lines 269-272: try_connect with keep_retrying (it returns a stream, or, when
\* no uri resolves, the error of line 51; otherwise it keeps trying), then the
\* new sink replaces the old one.
do_reconnect_connect(c) ==
    /\ pc[c] = "rc2"
    /\ \/ /\ nconn < MaxConn
          /\ nconn' = nconn + 1
          /\ alive' = [alive EXCEPT ![nconn + 1] = TRUE]
          /\ conn_sink' = nconn + 1
          /\ item' = [item EXCEPT ![c] = nconn + 1]
          /\ pc' = [pc EXCEPT ![c] = "rc3"]
       \/ /\ pc' = [pc EXCEPT ![c] = "rc_err"]
          /\ UNCHANGED <<nconn, alive, conn_sink, item>>
    /\ UNCHANGED <<state, subscriptions, sink, recv, held, wire, nsid, reconnect_version,
                   rver, misc, req, snap, result, calls, closed>>

\* line 275: the version start() is given for the new reader.
StartVersion(v) == 1

\* lines 273-275 and start, lines 82-108: bump the version (the write lock
\* waits for the readers handling a frame), spawn the reader of the new
\* stream, send CONNECT.
do_reconnect_start(c) ==
    /\ pc[c] = "rc3"
    /\ VersionReaders = {}
    /\ reconnect_version' = reconnect_version + 1
    /\ rver' = [rver EXCEPT ![item[c]] = StartVersion(reconnect_version')]
    /\ pc' = [pc EXCEPT ![c] = IF send_ok THEN "rc5" ELSE "rc_err",
                        ![Reader(item[c])] = "read"]
    /\ UNCHANGED <<state, subscriptions, sink, recv, held, wire, nsid, conn_sink, alive,
                   nconn, misc, locals, result, calls, closed>>

\* start, lines 109-111.
start_connected(c) ==
    /\ pc[c] = "rc5"
    /\ StateLockFree
    /\ state' = "Connected"
    /\ pc' = [pc EXCEPT ![c] = "rc6"]
    /\ UNCHANGED <<subscriptions, sink, recv, held, wire, nsid, conn, misc, locals,
                   result, calls, closed>>

\* do_reconnect, lines 276-297: resend every stored Subscribe command (a
\* failed send is logged), then run the disconnect handlers.
ResubscribeBug(w, option) == w
Resubscribe(w, option) ==
    IF option = "on"
    THEN w (+) SetToBag({Frame("SUB", subscriptions[s].sid, subscriptions[s].subject) :
                            s \in DOMAIN subscriptions})
    ELSE w
do_reconnect_resubscribe(c) ==
    /\ pc[c] = "rc6"
    /\ SubsLockFree
    /\ \E option \in (IF subscribe_on_reconnect = "unread" THEN {"on", "off"}
                       ELSE {subscribe_on_reconnect}) :
          /\ subscribe_on_reconnect' = option
          /\ wire' = Resubscribe(wire, option)
    /\ notified' = notified + 1
    /\ pc' = [pc EXCEPT ![c] = "rc_ok"]
    /\ UNCHANGED <<state, subscriptions, sink, recv, held, nsid, conn, client_ref,
                   server_info, arrived, locals, result, calls, closed, stan, factory>>

\* reconnect, lines 248-252.
reconnect_ok(c) ==
    /\ pc[c] = "rc_ok"
    /\ StateLockFree
    /\ state' = "Connected"
    /\ Return(c, [result[c] EXCEPT !.ok = TRUE])
    /\ UNCHANGED <<subscriptions, sink, recv, held, wire, nsid, conn, misc, locals,
                   calls, closed>>

\* reconnect, lines 253-258 without the write of line 256.
reconnect_err_bug(c) ==
    /\ pc[c] = "rc_err"
    /\ StateLockFree
    /\ Return(c, [result[c] EXCEPT !.ok = FALSE])
    /\ UNCHANGED <<state, subscriptions, sink, recv, held, wire, nsid, conn, misc, locals,
                   calls, closed>>
\* reconnect, lines 253-258.
reconnect_err(c) ==
    /\ pc[c] = "rc_err"
    /\ StateLockFree
    /\ state' = "Disconnected"
    /\ Return(c, [result[c] EXCEPT !.ok = FALSE])
    /\ UNCHANGED <<subscriptions, sink, recv, held, wire, nsid, conn, misc, locals,
                   calls, closed>>

\* -------------------------------------------------------- heartbeat monitor
\* monitor_heartbeat, lines 309-315: after the first half interval, leave the
\* loop when the state is Shutdown.
monitor_check(t) ==
    /\ pc[t] = "m_check"
    /\ StateLockFree
    /\ pc' = [pc EXCEPT ![t] = IF state = "Shutdown" THEN "done" ELSE "m_ping"]
    /\ UNCHANGED <<state, subscriptions, sink, recv, held, wire, nsid, conn, misc, locals,
                   result, calls, closed>>

\* lines 317-321 with the error of the send dropped.
monitor_ping_bug(t) ==
    /\ pc[t] = "m_ping"
    /\ pc' = [pc EXCEPT ![t] = "m_last"]
    /\ UNCHANGED <<state, subscriptions, sink, recv, held, wire, nsid, conn, misc, locals,
                   result, calls, closed>>
\* lines 317-321: PING; a failed send goes to on_disconnect.
monitor_ping(t) ==
    /\ pc[t] = "m_ping"
    /\ pc' = [pc EXCEPT ![t] = IF send_ok THEN "m_last" ELSE "m_od1"]
    /\ UNCHANGED <<state, subscriptions, sink, recv, held, wire, nsid, conn, misc, locals,
                   result, calls, closed>>

\* lines 322-331: after the second half interval read last_ping (the read
\* guard lives to the end of the iteration).  Time is not a variable: how long
\* ago the last frame came is the environment's choice, so either outcome of
\* (now - last_ping) > ping_max_out * ping_interval can be the one read; too
\* old goes to on_disconnect.
monitor_last_ping(t) ==
    /\ pc[t] = "m_last"
    /\ \E too_old \in BOOLEAN :
          pc' = [pc EXCEPT ![t] = IF too_old THEN "m_od1t" ELSE "m_check"]
    /\ UNCHANGED <<state, subscriptions, sink, recv, held, wire, nsid, conn, misc, locals,
                   result, calls, closed>>

\* on_disconnect, lines 339-342.
on_disconnect_state_bug(t) ==
    /\ pc[t] \in {"m_od1", "m_od1t"}
    /\ StateLockFree
    /\ state' = "Disconnected"
    /\ subscriptions' = <<>>
    /\ pc' = [pc EXCEPT ![t] = IF pc[t] = "m_od1" THEN "m_od2" ELSE "m_od2t"]
    /\ UNCHANGED <<sink, recv, held, wire, nsid, conn, misc, locals,
                   result, calls, closed>>
on_disconnect_state(t) ==
    /\ pc[t] \in {"m_od1", "m_od1t"}
    /\ StateLockFree
    /\ state' = "Disconnected"
    /\ pc' = [pc EXCEPT ![t] = IF pc[t] = "m_od1" THEN "m_od2" ELSE "m_od2t"]
    /\ UNCHANGED <<subscriptions, sink, recv, held, wire, nsid, conn, misc, locals,
                   result, calls, closed>>

\* on_disconnect, lines 344-352, then `break` (line 330).
on_disconnect_notify_bug(t) ==
    /\ pc[t] \in {"m_od2", "m_od2t"}
    /\ notified' = IF client_ref THEN notified + 1 ELSE notified
    /\ pc' = [pc EXCEPT ![t] = "m_check"]
    /\ UNCHANGED <<state, subscriptions, sink, recv, held, wire, nsid, conn, client_ref,
                   server_info, subscribe_on_reconnect, arrived, locals, result,
                   calls, closed, stan, factory>>
\* on_disconnect, lines 344-352, and NatsClient::on_disconnect, lines 161-167:
\* with the back-reference, run the handlers; the monitor then leaves its loop.
on_disconnect_notify(t) ==
    /\ pc[t] \in {"m_od2", "m_od2t"}
    /\ notified' = IF client_ref THEN notified + 1 ELSE notified
    /\ pc' = [pc EXCEPT ![t] = "done"]
    /\ UNCHANGED <<state, subscriptions, sink, recv, held, wire, nsid, conn, client_ref,
                   server_info, subscribe_on_reconnect, arrived, locals, result,
                   calls, closed, stan, factory>>

\* ------------------------------------------------------------ inbound reader
\* start, lines 83-87: the next frame of this reader's stream, then the
\* version check under reconnect_version.read(); the stream ends when the
\* socket is down.
VersionMatchesBug(k) == TRUE
VersionMatches(k) == reconnect_version = rver[k]
reader_next(k) ==
    /\ pc[Reader(k)] = "read"
    /\ \/ /\ alive[k]
          /\ \/ \E op \in ControlOps :
                   /\ item' = [item EXCEPT ![Reader(k)] = [op |-> op, sid |-> 0, n |-> 0]]
                   /\ UNCHANGED arrived
             \/ \E s \in MsgSids :
                   /\ Len(arrived) < MsgBound
                   /\ arrived' = Append(arrived, s)
                   /\ item' = [item EXCEPT ![Reader(k)] =
                                   [op |-> "MSG", sid |-> s, n |-> Len(arrived) + 1]]
          /\ pc' = [pc EXCEPT ![Reader(k)] = IF VersionMatches(k) THEN "reset" ELSE "exited"]
       \/ /\ ~alive[k]
          /\ pc' = [pc EXCEPT ![Reader(k)] = "exited"]
          /\ UNCHANGED <<arrived, item>>
    /\ UNCHANGED <<state, subscriptions, sink, recv, held, wire, nsid, conn, client_ref,
                   server_info, notified, subscribe_on_reconnect, req, snap, result,
                   calls, closed, stan, factory>>

\* process_nats_event, lines 123-136: ping_pong_reset (last_ping.write() waits
\* for the monitor's read guard), then CLOSE, INFO and PING
\* (the PONG that answers a PING is not recorded in wire).
process_nats_event(k) ==
    LET f == item[Reader(k)] IN
    /\ pc[Reader(k)] = "reset"
    /\ LastPingReaders = {}
    /\ pc' = [pc EXCEPT ![Reader(k)] = CASE f.op = "CLOSE" -> "stop1"
                                         [] f.op = "MSG" -> "route"
                                         [] OTHER -> "read"]
    /\ snap' = IF f.op = "CLOSE" THEN [snap EXCEPT ![Reader(k)] = DOMAIN subscriptions] ELSE snap
    /\ server_info' = IF f.op = "INFO" THEN k ELSE server_info
    /\ UNCHANGED <<state, subscriptions, sink, recv, held, wire, nsid, conn, client_ref, notified,
                   subscribe_on_reconnect, arrived, item, req, result, calls, closed, stan,
                   factory>>

\* process_nats_event, lines 137-144 without the lookup of line 139.
process_msg_bug(k) ==
    LET f == item[Reader(k)] IN
    /\ pc[Reader(k)] = "route"
    /\ SubsLockFree
    /\ sink' = SenderSend(sink, f.sid, f.n)
    /\ pc' = [pc EXCEPT ![Reader(k)] = "read"]
    /\ UNCHANGED <<state, subscriptions, recv, held, wire, nsid, conn, misc, locals,
                   result, calls, closed>>
\* process_nats_event, lines 137-144: under the registry lock, enqueue the
\* message to the sink of its sid, if the sid has a record.
process_msg(k) ==
    LET f == item[Reader(k)] IN
    /\ pc[Reader(k)] = "route"
    /\ SubsLockFree
    /\ sink' = IF f.sid \in DOMAIN subscriptions
               THEN SenderSend(sink, f.sid, f.n) ELSE sink
    /\ pc' = [pc EXCEPT ![Reader(k)] = "read"]
    /\ UNCHANGED <<state, subscriptions, recv, held, wire, nsid, conn, misc, locals,
                   result, calls, closed>>

\* ------------------------------------------------------------- environment
\* The socket of a connection goes down.
SocketDown(k) ==
    /\ k <= nconn
    /\ alive[k]
    /\ alive' = [alive EXCEPT ![k] = FALSE]
    /\ UNCHANGED <<state, subscriptions, sink, recv, held, wire, nsid, conn_sink, nconn,
                   reconnect_version, rver, misc, locals, pc, result, calls, closed>>

\* ---------------------------------------------------------- Streaming client
\* A run of the Streaming client begins in StanClient::from_options at line
\* 50, where NatsClient::new has returned.
InitStan == InitCore /\ stan_pc = "connect" /\ FactoryOff /\ AcksOff

\* from_options, lines 61-63: the ConnectRequest, a Core request.
from_options_request ==
    /\ stan_pc = "connect"
    /\ result[Stan].op = "none"
    /\ request_subscribe(Stan)

\* from_options, lines 61-106: `?` on the request; then the StanClient with its
\* self_reference, and the heartbeat task spawned.
from_options_finish ==
    /\ stan_pc = "connect"
    /\ pc[Stan] = "idle"
    /\ result[Stan].op = "request"
    /\ IF result[Stan].ok
       THEN /\ stan_pc' = "ready"
            /\ self_reference' = TRUE
            /\ pc' = [pc EXCEPT ![Heartbeats] = "hb_sub"]
       ELSE /\ stan_pc' = "failed"
            /\ UNCHANGED <<self_reference, pc>>
    /\ result' = [result EXCEPT ![Stan] = IF result[Stan].ok THEN Ok("from_options")
                                          ELSE Err("from_options")]
    /\ UNCHANGED <<state, subscriptions, sink, recv, held, wire, nsid, conn, client_ref,
                   server_info, notified, subscribe_on_reconnect, arrived, locals, calls,
                   closed, stan_subscriptions, stan_sink, stan_recv, rd, factory, acks>>

\* process_heartbeats, line 117: the Core subscription to the heartbeat inbox;
\* `?` ends the task when the SUB cannot be sent.
process_heartbeats_subscribe ==
    /\ pc[Heartbeats] = "hb_sub"
    /\ \E cmdSid \in {EmptySid, nsid + 1} : inner_subscribe(cmdSid)
    /\ pc' = [pc EXCEPT ![Heartbeats] = IF send_ok THEN "hb_loop" ELSE "done"]
    /\ item' = [item EXCEPT ![Heartbeats] = nsid + 1]
    /\ UNCHANGED <<state, sink, held, conn, misc, req, snap, result, calls, closed>>

\* process_heartbeats, lines 118-119: the next heartbeat, with or without a
\* reply subject; the end of the stream ends the task.
process_heartbeats_next ==
    LET s == item[Heartbeats] IN
    /\ pc[Heartbeats] = "hb_loop"
    /\ rd[s] < Len(sink[s])
    /\ rd' = [rd EXCEPT ![s] = @ + 1]
    /\ IF sink[s][rd[s] + 1] = Close
       THEN /\ pc' = [pc EXCEPT ![Heartbeats] = "done"]
            /\ recv' = recv \ {s}
       ELSE /\ \E reply_to \in BOOLEAN :
                  pc' = [pc EXCEPT ![Heartbeats] = IF reply_to THEN "hb_pub" ELSE "hb_loop"]
            /\ UNCHANGED recv
    /\ UNCHANGED <<state, subscriptions, sink, held, wire, nsid, conn, client_ref, server_info,
                   notified, subscribe_on_reconnect, arrived, locals, result, calls, closed,
                   stan_pc, stan_subscriptions, stan_sink, stan_recv, self_reference,
                   factory, acks>>

\* The PubMsg of lines 120-126, published to the reply subject of heartbeat m;
\* its subject is the heartbeat inbox, the one subscribed under sid s.
HeartbeatReply(m, s) == Frame("PUB", m, s)

\* lines 120-137 with the publish left out.
process_heartbeats_publish_bug ==
    /\ pc[Heartbeats] = "hb_pub"
    /\ pc' = [pc EXCEPT ![Heartbeats] = "hb_loop"]
    /\ UNCHANGED <<state, subscriptions, sink, recv, held, wire, nsid, conn, misc, locals,
                   result, calls, closed>>
\* lines 120-137: the reply is published (an error is only logged), and the
\* loop goes on.
process_heartbeats_publish ==
    LET s == item[Heartbeats] IN
    /\ pc[Heartbeats] = "hb_pub"
    /\ wire' = send_command(wire, "PUB", sink[s][rd[s]], s)
    /\ pc' = [pc EXCEPT ![Heartbeats] = "hb_loop"]
    /\ UNCHANGED <<state, subscriptions, sink, recv, held, nsid, conn, misc, locals, result,
                   calls, closed>>

\* subscribe_inner, lines 286-289: the SubscriptionRequest, a Core request.
subscribe_inner_request ==
    /\ stan_pc = "ready"
    /\ result[Stan].op # "request"
    /\ request_subscribe(Stan)

\* subscribe_inner, lines 286-324, once the request has returned: on Ok the
\* Core subscription to the inbox (`?`), the record with a clone of the
\* sender, the forwarding task that owns the sender itself, and the receiver
\* returned to the caller; on an error InternalServerError.
subscribe_inner_subscribe ==
    /\ stan_pc = "ready"
    /\ pc[Stan] = "idle"
    /\ result[Stan].op = "request"
    /\ IF result[Stan].ok
       THEN /\ \E cmdSid \in {EmptySid, nsid + 1} : inner_subscribe(cmdSid)
            /\ IF send_ok
               THEN /\ stan_subscriptions' = stan_subscriptions \cup {nsid + 1}
                    /\ stan_recv' = stan_recv \cup {nsid + 1}
                    /\ pc' = [pc EXCEPT ![Fwd(nsid + 1)] = "fwd"]
                    /\ result' = [result EXCEPT ![Stan] = Ok("stan_subscribe")]
               ELSE /\ result' = [result EXCEPT ![Stan] = Err("stan_subscribe")]
                    /\ UNCHANGED <<stan_subscriptions, stan_recv, pc>>
       ELSE /\ result' = [result EXCEPT ![Stan] = Err("stan_subscribe")]
            /\ UNCHANGED <<subscriptions, wire, recv, nsid, stan_subscriptions, stan_recv, pc>>
    /\ UNCHANGED <<state, sink, held, conn, client_ref, server_info, notified,
                   subscribe_on_reconnect, arrived, locals, calls, closed, stan_pc,
                   stan_sink, self_reference, rd, factory, acks>>

\* subscribe_inner, lines 307-311: the forwarding task: every message of the
\* Core stream goes to the streaming sink; the task ends, dropping its sender,
\* when the Core stream ends.
fwd_next(s) ==
    /\ pc[Fwd(s)] = "fwd"
    /\ rd[s] < Len(sink[s])
    /\ rd' = [rd EXCEPT ![s] = @ + 1]
    /\ IF sink[s][rd[s] + 1] = Close
       THEN /\ pc' = [pc EXCEPT ![Fwd(s)] = "done"]
            /\ recv' = recv \ {s}
            /\ UNCHANGED stan_sink
       ELSE /\ stan_sink' = [stan_sink EXCEPT ![s] = ChannelSend(@, sink[s][rd[s] + 1])]
            /\ UNCHANGED <<pc, recv>>
    /\ UNCHANGED <<state, subscriptions, sink, held, wire, nsid, conn, client_ref, server_info,
                   notified, subscribe_on_reconnect, arrived, locals, result, calls, closed,
                   stan_pc, stan_subscriptions, stan_recv, self_reference, factory, acks>>

\* The well-known subjects of the Streaming protocol, as destinations of a PUB.
UnsubRequests == 0 - 1   \* client_info.unsub_requests
CloseRequests == 0 - 2   \* client_info.close_requests

\* StanClient::un_subscribe, lines 418-421 and 438-440: under the registry's
\* write lock the record is removed; without a record, Ok.
stan_un_subscribe(s) ==
    /\ stan_pc = "ready"
    /\ pc[Stan] = "idle"
    /\ result[Stan].op # "request"
    /\ IF s \in stan_subscriptions
       THEN /\ stan_subscriptions' = stan_subscriptions \ {s}
            /\ req' = [req EXCEPT ![Stan] = s]
            /\ pc' = [pc EXCEPT ![Stan] = "st_pub"]
            /\ result' = [result EXCEPT ![Stan] = Err("stan_un_subscribe")]
       ELSE /\ result' = [result EXCEPT ![Stan] = Ok("stan_un_subscribe")]
            /\ UNCHANGED <<stan_subscriptions, req, pc>>
    /\ UNCHANGED <<state, subscriptions, sink, recv, held, wire, nsid, conn, client_ref,
                   server_info, notified, subscribe_on_reconnect, arrived, item, snap, calls,
                   closed, stan_pc, stan_sink, stan_recv, self_reference, rd, factory, acks>>

\* lines 422-436 with the sentinel of line 436 sent in place of the publish.
stan_un_subscribe_publish_bug ==
    /\ pc[Stan] = "st_pub"
    /\ stan_sink' = [stan_sink EXCEPT ![req[Stan]] = ChannelSend(@, Close)]
    /\ pc' = [pc EXCEPT ![Stan] = "st_close"]
    /\ UNCHANGED <<state, subscriptions, sink, recv, held, wire, nsid, conn, client_ref,
                   server_info, notified, subscribe_on_reconnect, arrived, locals, result,
                   calls, closed, stan_pc, stan_subscriptions, stan_recv, self_reference, rd,
                   factory, acks>>
\* lines 422-435: the UnsubscribeRequest is published, its error dropped.
stan_un_subscribe_publish ==
    /\ pc[Stan] = "st_pub"
    /\ wire' = send_command(wire, "PUB", req[Stan], UnsubRequests)
    /\ pc' = [pc EXCEPT ![Stan] = "st_close"]
    /\ UNCHANGED <<state, subscriptions, sink, recv, held, nsid, conn, misc, locals, result,
                   calls, closed>>

\* line 436: the close sentinel goes to the streaming sink through the
\* record's sender.
stan_un_subscribe_close ==
    /\ pc[Stan] = "st_close"
    /\ stan_sink' = [stan_sink EXCEPT ![req[Stan]] = ChannelSend(@, Close)]
    /\ pc' = [pc EXCEPT ![Stan] = "st_unsub"]
    /\ UNCHANGED <<state, subscriptions, sink, recv, held, wire, nsid, conn, client_ref,
                   server_info, notified, subscribe_on_reconnect, arrived, locals, result,
                   calls, closed, stan_pc, stan_subscriptions, stan_recv, self_reference, rd,
                   factory, acks>>

\* StanClient::un_subscribe, line 437: the Core un_subscribe of the same sid,
\* whose result is returned.
stan_un_subscribe_core ==
    /\ pc[Stan] = "st_unsub"
    /\ inner_un_subscribe(req[Stan])
    /\ Return(Stan, IF req[Stan] \in DOMAIN subscriptions /\ ~send_ok
                    THEN Err("stan_un_subscribe") ELSE Ok("stan_un_subscribe"))
    /\ req' = [req EXCEPT ![Stan] = 0]
    /\ UNCHANGED <<state, recv, held, nsid, conn, misc, item, snap, calls, closed>>

\* StanClient::close, lines 444-454: publish the CloseRequest (`?`), clear
\* self_reference, then NatsClient::close.  The streaming registry and the
\* streaming sinks are not touched.
stan_close ==
    /\ stan_pc = "ready"
    /\ pc[Stan] = "idle"
    /\ result[Stan].op # "request"
    /\ stan_pc' = "close"
    /\ wire' = send_command(wire, "PUB", 0, CloseRequests)
    /\ IF send_ok
       THEN /\ self_reference' = FALSE
            /\ pc' = [pc EXCEPT ![Stan] = "stop1"]
            /\ snap' = [snap EXCEPT ![Stan] = DOMAIN subscriptions]
       ELSE UNCHANGED <<self_reference, pc, snap>>
    /\ result' = [result EXCEPT ![Stan] = Err("stan_close")]
    /\ UNCHANGED <<state, subscriptions, sink, recv, held, nsid, conn, client_ref, server_info,
                   notified, subscribe_on_reconnect, arrived, item, req, calls, closed,
                   stan_subscriptions, stan_sink, stan_recv, rd, factory, acks>>

\* impl Stream for StanClosableReceiver, lines 467-517: the stream ends at the
\* close sentinel, or when the channel is empty with no sender left (the one
\* of the record, the one of the forwarding task).
StanSenders(s) == (IF s \in stan_subscriptions THEN {"record"} ELSE {})
                  \cup (IF pc[Fwd(s)] = "fwd" THEN {"forwarder"} ELSE {})
StanStreamEnds(s) == StreamEnds(stan_sink[s]) \/ StanSenders(s) = {}

\* ----------------------------------------------------------- specification
Next ==
    \/ subscribe(User)
    \/ \E s \in held \cup {NeverSid} : un_subscribe(User, s)
    \/ publish(User)
    \/ request_subscribe(User)
    \/ request_publish(User)
    \/ request_next(User)
    \/ request_finish(User)
    \/ close(Admin)
    \/ \E t \in Tasks : stop_state(t)
    \/ \E t \in Tasks : stop_subscriptions(t)
    \/ \E t \in Tasks : stop_client_ref(t)
    \/ \E c \in Callers : reconnect(c)
    \/ \E c \in Callers : do_reconnect_ref(c)
    \/ \E c \in Callers : do_reconnect_connect(c)
    \/ \E c \in Callers : do_reconnect_start(c)
    \/ \E c \in Callers : start_connected(c)
    \/ \E c \in Callers : do_reconnect_resubscribe(c)
    \/ \E c \in Callers : reconnect_ok(c)
    \/ \E c \in Callers : reconnect_err(c)
    \/ monitor_check(Monitor)
    \/ monitor_ping(Monitor)
    \/ monitor_last_ping(Monitor)
    \/ on_disconnect_state(Monitor)
    \/ on_disconnect_notify(Monitor)
    \/ \E k \in Conns : reader_next(k)
    \/ \E k \in Conns : process_nats_event(k)
    \/ \E k \in Conns : process_msg(k)
    \/ \E k \in Conns : SocketDown(k)

Spec == Init /\ [][Next]_vars

\* The Streaming client over one connection: no reconnect is called, and the
\* heartbeat monitor of the Core client finds the connection healthy.
NextStan ==
    \/ from_options_request
    \/ from_options_finish
    \/ request_publish(Stan)
    \/ request_next(Stan)
    \/ request_finish(Stan)
    \/ process_heartbeats_subscribe
    \/ process_heartbeats_next
    \/ process_heartbeats_publish
    \/ subscribe_inner_request
    \/ subscribe_inner_subscribe
    \/ \E s \in Sids : fwd_next(s)
    \/ \E s \in stan_recv : stan_un_subscribe(s)
    \/ stan_un_subscribe_publish
    \/ stan_un_subscribe_close
    \/ stan_un_subscribe_core
    \/ stan_close
    \/ \E t \in Tasks : stop_state(t)
    \/ \E t \in Tasks : stop_subscriptions(t)
    \/ \E t \in Tasks : stop_client_ref(t)
    \/ \E k \in Conns : reader_next(k)
    \/ \E k \in Conns : process_nats_event(k)
    \/ \E k \in Conns : process_msg(k)
    \/ \E k \in Conns : SocketDown(k)

SpecStan == InitStan /\ [][NextStan]_vars

\* Acknowledgements only: the Streaming client is connected and subscribed to,
\* nobody closes or unsubscribes, and the consumer of the subscription polls
\* its stream, invokes ack handlers and calls acknowledge.
InitAck ==
    /\ InitCore
    /\ stan_pc = "connect"
    /\ FactoryOff
    /\ manual_acks \in BOOLEAN
    /\ polled = [s \in Sids |-> 0]
    /\ delivered = <<>>
    /\ ack_tasks = <<>>

\* subscribe_inner, line 293: the ack_inbox of the SubscriptionResponse, as the
\* destination of a PUB.
AckInbox == 0 - 3

\* ack_message, lines 336-340: the Ack { subject, sequence } of message m,
\* published to the ack_inbox.
Ack(m) == Frame("PUB", m, AckInbox)

\* acks begun so far: handler invocations and acknowledge calls
AcksBegun(d) == IF d = <<>> THEN 0
                ELSE LET sum[i \in 0..Len(d)] ==
                            IF i = 0 THEN 0 ELSE sum[i - 1] + d[i].invoked + d[i].acknowledged
                     IN sum[Len(d)]

\* lines 479-494: `if !*manual_acks { Some(AckHandler(..)) } else { None }`.
AckHandlerAttached(manual) == ~manual

\* StanClosableReceiver::poll_next, lines 470-515: the next item of the
\* streaming channel: a message becomes a StanMessage, with the ack handler
\* unless manual_acks; the close sentinel ends the stream.
poll_next(s) ==
    /\ s \in stan_recv
    /\ polled[s] < Len(stan_sink[s])
    /\ \A j \in 1..polled[s] : stan_sink[s][j] # Close
    /\ polled' = [polled EXCEPT ![s] = @ + 1]
    /\ delivered' = IF stan_sink[s][polled[s] + 1] = Close THEN delivered
                    ELSE Append(delivered, [sid |-> s, msg |-> stan_sink[s][polled[s] + 1],
                                            ack_handler |-> AckHandlerAttached(manual_acks),
                                            invoked |-> 0, acknowledged |-> 0])
    /\ UNCHANGED <<state, subscriptions, sink, recv, held, conn, wire, pc, locals, result,
                   nsid, calls, closed, client_ref, server_info, notified,
                   subscribe_on_reconnect, arrived, stan_pc, stan_subscriptions, stan_sink,
                   stan_recv, self_reference, rd, factory, manual_acks, ack_tasks>>

\* The closure of lines 481-491, invoked on the i-th delivered message: it
\* spawns a task that will call ack_message.
ack_handler(i) ==
    /\ i \in 1..Len(delivered)
    /\ delivered[i].ack_handler
    /\ AcksBegun(delivered) < MaxAcks
    /\ delivered' = [delivered EXCEPT ![i].invoked = @ + 1]
    /\ ack_tasks' = Append(ack_tasks, delivered[i].msg)
    /\ UNCHANGED <<state, subscriptions, sink, recv, held, conn, wire, pc, locals, result,
                   nsid, calls, closed, client_ref, server_info, notified,
                   subscribe_on_reconnect, arrived, stan_pc, stan_subscriptions, stan_sink,
                   stan_recv, self_reference, rd, factory, manual_acks, polled>>

\* lines 485-490 with the task publishing nothing.
ack_message_bug(j) ==
    /\ j \in 1..Len(ack_tasks)
    /\ ack_tasks' = [k \in 1..(Len(ack_tasks) - 1) |->
                        IF k < j THEN ack_tasks[k] ELSE ack_tasks[k + 1]]
    /\ UNCHANGED <<state, subscriptions, sink, recv, held, conn, wire, pc, locals, result,
                   nsid, calls, closed, client_ref, server_info, notified,
                   subscribe_on_reconnect, arrived, stan_pc, stan_subscriptions, stan_sink,
                   stan_recv, self_reference, rd, factory, manual_acks, polled, delivered>>
\* The spawned task, lines 485-490, and ack_message, lines 331-341: one
\* publish of the Ack to the ack_inbox, its result dropped; the tasks run in
\* any order.
ack_message(j) ==
    /\ j \in 1..Len(ack_tasks)
    /\ wire' = send_command(wire, "PUB", ack_tasks[j], AckInbox)
    /\ ack_tasks' = [k \in 1..(Len(ack_tasks) - 1) |->
                        IF k < j THEN ack_tasks[k] ELSE ack_tasks[k + 1]]
    /\ UNCHANGED <<state, subscriptions, sink, recv, held, conn, pc, locals, result,
                   nsid, calls, closed, client_ref, server_info, notified,
                   subscribe_on_reconnect, arrived, stan_pc, stan_subscriptions, stan_sink,
                   stan_recv, self_reference, rd, factory, manual_acks, polled, delivered>>

\* StanClient::acknowledge, lines 343-351: every delivered message has an
\* ack_inbox (line 507), so the Ack is published and its result returned.
acknowledge(i) ==
    /\ i \in 1..Len(delivered)
    /\ AcksBegun(delivered) < MaxAcks
    /\ delivered' = [delivered EXCEPT ![i].acknowledged = @ + 1]
    /\ wire' = send_command(wire, "PUB", delivered[i].msg, AckInbox)
    /\ UNCHANGED <<state, subscriptions, sink, recv, held, conn, pc, locals, result,
                   nsid, calls, closed, client_ref, server_info, notified,
                   subscribe_on_reconnect, arrived, stan_pc, stan_subscriptions, stan_sink,
                   stan_recv, self_reference, rd, factory, manual_acks, polled, ack_tasks>>

NextAck ==
    \/ from_options_request
    \/ from_options_finish
    \/ request_publish(Stan)
    \/ request_next(Stan)
    \/ request_finish(Stan)
    \/ process_heartbeats_subscribe
    \/ subscribe_inner_request
    \/ subscribe_inner_subscribe
    \/ \E s \in Sids : fwd_next(s)
    \/ \E s \in Sids : poll_next(s)
    \/ \E i \in 1..MaxAcks : ack_handler(i)
    \/ \E j \in 1..MaxAcks : ack_message(j)
    \/ \E i \in 1..MaxAcks : acknowledge(i)
    \/ \E t \in Tasks : stop_state(t)
    \/ \E t \in Tasks : stop_subscriptions(t)
    \/ \E t \in Tasks : stop_client_ref(t)
    \/ \E k \in Conns : reader_next(k)
    \/ \E k \in Conns : process_nats_event(k)
    \/ \E k \in Conns : process_msg(k)
    \/ \E k \in Conns : SocketDown(k)

SpecAck == InitAck /\ [][NextAck]_vars

\* ------------------------------------------------------------- try_connect
\* One call of NatsClientInner::try_connect, before the client exists
\* (NatsClient::new) or inside do_reconnect.  A uri is an address literal
\* ("ip"), the same with the scheme in front ("nats://ip"), a host name that
\* resolves to two addresses ("host"), or one that does not resolve ("bad").
Uris == {"ip", "nats://ip", "host", "bad"}

\* lines 33-37: the scheme is cut off.
StripScheme(uri) == IF uri = "nats://ip" THEN "ip" ELSE uri

\* lines 38-47: the addresses of one uri, in the resolver's order; the i-th uri
\* of the list yields (i, 1) and, for a host name, (i, 2).
Resolve(i, uri) ==
    IF StripScheme(uri) = "ip" THEN <<(<<i, 1>>)>>
    ELSE IF StripScheme(uri) = "host" THEN <<(<<i, 1>>), (<<i, 2>>)>>
    ELSE <<>>

\* lines 30-49: flat_map over the uris in declared order, from the i-th on.
RECURSIVE FlatMap(_, _)
FlatMap(uris, i) ==
    IF i > Len(uris) THEN <<>> ELSE Resolve(i, uris[i]) \o FlatMap(uris, i + 1)

InitConnect ==
    /\ InitCore
    /\ AcksOff
    /\ stan_pc = "off"
    /\ cluster_uris \in UNION {[1..n -> Uris] : n \in 0..MaxUris}
    /\ keep_retrying \in BOOLEAN
    /\ valid_addresses = <<>>
    /\ try_pc = "resolve"
    /\ next_addr = 0
    /\ pass = 0
    /\ attempts = <<>>
    /\ try_result = "none"

core == <<state, subscriptions, sink, recv, held, conn, wire, pc, locals, result, nsid,
          calls, closed, client_ref, server_info, notified, subscribe_on_reconnect,
          arrived, stan>>

\* lines 30-52: resolve; no address at all is an error of its own.
try_connect_resolve ==
    /\ try_pc = "resolve"
    /\ valid_addresses' = FlatMap(cluster_uris, 1)
    /\ IF valid_addresses' = <<>>
       THEN /\ try_pc' = "returned"
            /\ try_result' = "GenericError"
            /\ UNCHANGED <<pass, next_addr>>
       ELSE /\ try_pc' = "connect"
            /\ pass' = 1
            /\ next_addr' = 1
            /\ UNCHANGED try_result
    /\ UNCHANGED <<cluster_uris, keep_retrying, attempts, core>>

\* lines 54-62 with the `return` of line 57 left out.
try_connect_addr_bug ==
    /\ try_pc = "connect"
    /\ \E ok \in BOOLEAN :
          /\ attempts' = Append(attempts, [addr |-> valid_addresses[next_addr],
                                           pass |-> pass, ok |-> ok])
          /\ try_pc' = IF next_addr = Len(valid_addresses) THEN "exhausted" ELSE "connect"
          /\ next_addr' = next_addr + 1
          /\ UNCHANGED try_result
    /\ UNCHANGED <<cluster_uris, keep_retrying, valid_addresses, pass, core>>

\* lines 54-62: one TcpStream::connect of the `for` loop; the first success
\* returns, a failure is logged and the loop goes on.
try_connect_addr ==
    /\ try_pc = "connect"
    /\ \E ok \in BOOLEAN :
          /\ attempts' = Append(attempts, [addr |-> valid_addresses[next_addr],
                                           pass |-> pass, ok |-> ok])
          /\ IF ok
             THEN /\ try_pc' = "returned"
                  /\ try_result' = "Ok"
                  /\ UNCHANGED next_addr
             ELSE /\ try_pc' = IF next_addr = Len(valid_addresses) THEN "exhausted"
                               ELSE "connect"
                  /\ next_addr' = next_addr + 1
                  /\ UNCHANGED try_result
    /\ UNCHANGED <<cluster_uris, keep_retrying, valid_addresses, pass, core>>

\* lines 63-68 with keep_retrying not looked at.
try_connect_exhausted_bug ==
    /\ try_pc = "exhausted"
    /\ try_pc' = "returned"
    /\ try_result' = "NoRouteToHostError"
    /\ UNCHANGED <<cluster_uris, keep_retrying, valid_addresses, next_addr, pass, attempts,
                   core>>

\* lines 63-68: every address of the pass failed.
try_connect_exhausted ==
    /\ try_pc = "exhausted"
    /\ IF keep_retrying
       THEN try_pc' = "sleep" /\ UNCHANGED try_result
       ELSE try_pc' = "returned" /\ try_result' = "NoRouteToHostError"
    /\ UNCHANGED <<cluster_uris, keep_retrying, valid_addresses, next_addr, pass, attempts,
                   core>>

\* line 65 and back to line 53: the backoff is over, the next pass begins.
try_connect_retry ==
    /\ try_pc = "sleep"
    /\ pass < MaxPasses
    /\ try_pc' = "connect"
    /\ pass' = pass + 1
    /\ next_addr' = 1
    /\ UNCHANGED <<cluster_uris, keep_retrying, valid_addresses, attempts, try_result, core>>

NextConnect ==
    \/ try_connect_resolve
    \/ try_connect_addr
    \/ try_connect_exhausted
    \/ try_connect_retry

SpecConnect == InitConnect /\ [][NextConnect]_vars

\* -------------------------------------------------------------- properties
RcPcs == {"rc1", "rc2", "rc3", "rc5", "rc6", "rc_ok", "rc_err"}
Attempting == {c \in Callers : pc[c] \in RcPcs}
UnsubFrames(w, s) == {f \in BagToSet(w) : f.op = "UNSUB" /\ f.sid = s}
SubFrames(w, k) == {f \in BagToSet(w) : f.op = "SUB" /\ f.conn = k}
Closes(q) == Cardinality({i \in 1..Len(q) : q[i] = Close})

\* C1: once stop()/close() has set the state to Shutdown, no later step moves
\* it to any other state.
C1_ShutdownTerminal == [][state = "Shutdown" => state' = "Shutdown"]_vars

\* C2: a publish, subscribe or request that begins after a stop()/close() has
\* returned returns an error.
C2_ErrorAfterClose ==
    \A c \in Callers :
        (/\ pc[c] = "idle"
         /\ result[c].op \in {"publish", "subscribe", "request"}
         /\ result[c].after_close) => ~result[c].ok

\* C3: for every sid, what its consumer is given is a subsequence of the MSG
\* frames that arrived for that sid, in the order they arrived.
C3_OrderPreserved ==
    \A s \in Sids :
        LET q == Stream(sink[s]) IN
        /\ \A i \in 1..Len(q) : q[i] \in 1..Len(arrived) /\ arrived[q[i]] = s
        /\ \A i, j \in 1..Len(q) : i < j => q[i] < q[j]
C3_Witness ==
    \E s \in Sids : Len(Stream(sink[s])) = 2 /\ nconn = 2

\* C4: un_subscribe of a sid that has a record removes the record, puts the
\* close sentinel in its sink and sends exactly one UNSUB; un_subscribe of a
\* sid that has no record (never registered, or already removed) returns Ok
\* and changes neither the registry nor any sink, and sends nothing.
C4_UnsubscribeOnce ==
    [][\A s \in Sids \cup {NeverSid} :
          un_subscribe(User, s) =>
             IF s \in DOMAIN subscriptions
             THEN /\ s \notin DOMAIN subscriptions'
                  /\ DOMAIN subscriptions' = DOMAIN subscriptions \ {s}
                  /\ sink' = [sink EXCEPT ![s] = Append(sink[s], Close)]
                  /\ \E k \in Conns, b \in BOOLEAN :
                        wire' = wire (+) SetToBag({[conn |-> k, op |-> "UNSUB", sid |-> s,
                                                    subject |-> 0, ok |-> b]})
             ELSE /\ result'[User] = Ok("un_subscribe")
                  /\ UNCHANGED <<subscriptions, sink, wire>>]_vars
C4_Witness ==
    /\ pc[User] = "idle"
    /\ result[User].op = "un_subscribe"
    /\ result[User].ok
    /\ \E s \in held : /\ s \notin DOMAIN subscriptions
                       /\ Closes(sink[s]) = 1
                       /\ \E f \in UnsubFrames(wire, s) : CopiesIn(f, wire) = 1 /\ f.ok
                       /\ Cardinality(UnsubFrames(wire, s)) = 1

\* C5: at the step close() returns, the state is Shutdown, the registry is
\* empty, and every sid that had a record when the call began has the close
\* sentinel in its sink (if its receiver still exists) and an UNSUB sent.
C5_CloseReturns ==
    [][(pc[Admin] = "stop3" /\ pc'[Admin] = "idle") =>
          /\ state' = "Shutdown"
          /\ subscriptions' = <<>>
          /\ result'[Admin].ok
          /\ \A s \in snap[Admin] :
                /\ s \in recv' => StreamEnds(sink'[s])
                /\ UnsubFrames(wire', s) # {}]_vars
C5_Witness ==
    /\ pc[Admin] = "idle"
    /\ result[Admin].op = "close"
    /\ result[Admin].ok
    /\ \E s \in snap[Admin] \cap held : StreamEnds(sink[s]) /\ Stream(sink[s]) # <<>>

\* StanClient::close() has returned Ok.
StanCloseReturned ==
    /\ stan_pc = "close"
    /\ pc[Stan] = "idle"
    /\ result[Stan].op = "stan_close"
    /\ result[Stan].ok

\* C6: once StanClient::close() has returned Ok, a streaming delivery sequence
\* that was not unsubscribed and whose forwarding task has run to its end
\* (nothing is put in its sink any more) has ended for its consumer.
C6_StanCloseEndsStreams ==
    \A s \in stan_recv :
        (StanCloseReturned /\ s \in stan_subscriptions /\ pc[Fwd(s)] = "done")
            => StanStreamEnds(s)

\* C7: when a reconnect attempt with subscribe_on_reconnect set returns Ok, a
\* SUB carrying the stored command (its sid and its subject) of every record in
\* the registry has been sent on the connection the attempt opened; and no
\* step of reconnect changes the set of sids in the registry.
C7_ReconnectResubscribes ==
    [][\A c \in Callers :
          /\ (pc[c] = "rc_ok" /\ pc'[c] = "idle" /\ subscribe_on_reconnect = "on") =>
                \A s \in DOMAIN subscriptions' :
                   \E f \in SubFrames(wire', item[c]) :
                      /\ f.sid = subscriptions'[s].sid
                      /\ f.subject = subscriptions'[s].subject
          /\ ((pc[c] \in RcPcs \/ pc'[c] \in RcPcs) /\ pc'[c] # pc[c]) =>
                subscriptions' = subscriptions]_vars
C7_Witness ==
    \E c \in Callers :
        /\ pc[c] = "idle"
        /\ result[c].op = "reconnect"
        /\ result[c].ok
        /\ subscribe_on_reconnect = "on"
        /\ nconn = 2
        /\ \E s \in DOMAIN subscriptions :
              /\ \E f \in SubFrames(wire, 1) : f.subject = subscriptions[s].subject
              /\ \E f \in SubFrames(wire, 2) : f.subject = subscriptions[s].subject /\ f.ok

\* C8: after a successful reconnect with subscribe_on_reconnect set, the reader
\* of the new connection takes a MSG frame for a sid of the registry on to the
\* router (it does not leave its loop on it, dropping the frame).
C8_DeliveryResumes ==
    [][\A k \in Conns :
          (/\ k > 1
           /\ conn_sink = k
           /\ state = "Connected"
           /\ Attempting = {}
           /\ subscribe_on_reconnect = "on"
           /\ pc[Reader(k)] = "read"
           /\ pc'[Reader(k)] # "read"
           /\ Len(arrived') = Len(arrived) + 1
           /\ arrived'[Len(arrived')] \in DOMAIN subscriptions) =>
                pc'[Reader(k)] = "reset"]_vars

\* C9: a record leaves the registry, and a close sentinel enters a sink, only
\* in a step of un_subscribe of that sid (called by the user or by request at
\* its end) or of stop(): never in a step of the heartbeat monitor, of
\* reconnect, of the reader routing a frame, of a send that fails.
C9_EndsOnlyByUnsubscribeOrStop ==
    [][\A s \in Sids :
          (\/ (s \in DOMAIN subscriptions /\ s \notin DOMAIN subscriptions')
           \/ Closes(sink'[s]) > Closes(sink[s])) =>
               \/ un_subscribe(User, s)
               \/ (request_finish(User) /\ req[User] = s)
               \/ \E t \in Tasks : stop_subscriptions(t)]_vars
C9_Witness ==
    /\ state = "Disconnected"
    /\ pc[Monitor] = "done"
    /\ \E c \in Callers : pc[c] = "idle" /\ result[c].op = "reconnect" /\ ~result[c].ok
    /\ \E s \in held : s \in DOMAIN subscriptions /\ ~StreamEnds(sink[s])

\* C10: reconnect() called in the Disconnected state moves it to Reconnecting
\* and starts an attempt; called in any other state it returns Ok and leaves
\* the state, the sink, the version counter and the registry as they are; an
\* attempt starts in no other way, and at most one is in progress.
C10_SingleReconnect ==
    /\ [][\A c \in Callers :
            /\ reconnect(c) =>
                  IF state = "Disconnected"
                  THEN state' = "Reconnecting" /\ pc'[c] = "rc1"
                  ELSE /\ pc'[c] = "idle"
                       /\ result'[c] = Ok("reconnect")
                       /\ UNCHANGED <<state, conn_sink, reconnect_version, subscriptions>>
            /\ (pc[c] \notin RcPcs /\ pc'[c] \in RcPcs) =>
                  state = "Disconnected" /\ state' = "Reconnecting"]_vars
    /\ [](Cardinality(Attempting) <= 1)
C10_Witness ==
    /\ pc[Admin] \in {"rc2", "rc3", "rc5", "rc6"}
    /\ pc[User] = "idle"
    /\ result[User] = [op |-> "reconnect", ok |-> TRUE, after_close |-> FALSE]
    /\ state \in {"Reconnecting", "Connected"}

UnsubCount(w, s) == BagCardinality([f \in UnsubFrames(w, s) |-> CopiesIn(f, w)])

\* C12: when request returns Ok, what it took from its reply sequence is the
\* first item of that sequence, a message that arrived for the reply sid; the
\* receiver is gone (nothing more is consumed), the registry holds no record
\* for the reply sid, and exactly one UNSUB for it was sent.
C12_RequestConsumesOne ==
    [][\A c \in CallTasks :
          (pc[c] = "rq_unsub" /\ pc'[c] = "idle" /\ result'[c].ok) =>
             /\ item[c] = Head(sink[req[c]])
             /\ item[c] \in 1..Len(arrived)
             /\ arrived[item[c]] = req[c]
             /\ req[c] \notin recv'
             /\ req[c] \notin DOMAIN subscriptions'
             /\ UnsubCount(wire', req[c]) = 1]_vars
C12_Witness ==
    /\ pc[User] = "idle"
    /\ result[User].op = "request"
    /\ result[User].ok
    /\ subscriptions = <<>>
    /\ UnsubCount(wire, 1) = 1
    /\ Len(sink[1]) = 2

\* C13: a request whose reply sequence ends before any message (its first item
\* is the close sentinel) returns the error and no message; a request that
\* returns at this point with a message had one before the sentinel; and once
\* the sequence holds an item the request is not stuck: it, or the stop() that
\* holds the registry lock it needs, or the reconnect that stop() waits for,
\* can take a step.
C13_RequestStreamClosed ==
    /\ [][\A c \in CallTasks :
            (pc[c] = "rq_unsub" /\ pc'[c] = "idle") =>
               /\ item[c] = Head(sink[req[c]])
               /\ result'[c].ok = (Head(sink[req[c]]) # Close)]_vars
    /\ [](\A c \in CallTasks :
            (pc[c] = "rq_unsub" \/ (pc[c] = "rq_wait" /\ sink[req[c]] # <<>>)) =>
               ENABLED (\/ request_next(c)
                        \/ request_finish(c)
                        \/ \E t \in Tasks : stop_client_ref(t)
                        \/ \E a \in Callers : \/ do_reconnect_connect(a)
                                              \/ do_reconnect_start(a)
                                              \/ start_connected(a)
                                              \/ do_reconnect_resubscribe(a)))

\* the attempts of pass p, in the order made
RECURSIVE PassAttempts(_, _)
PassAttempts(log, p) ==
    IF log = <<>> THEN <<>>
    ELSE (IF Head(log).pass = p THEN <<Head(log)>> ELSE <<>>) \o PassAttempts(Tail(log), p)

\* C14: the candidates are in the declared order of their uris; in every pass
\* the j-th connect is to the j-th candidate, so an address is tried only
\* after every earlier one was tried in that pass, and each of those failed;
\* a successful connect is the last one made, and try_connect has returned Ok
\* with it.
C14_DeclaredOrder ==
    /\ \A a, b \in 1..Len(valid_addresses) :
          a < b => \/ valid_addresses[a][1] < valid_addresses[b][1]
                   \/ /\ valid_addresses[a][1] = valid_addresses[b][1]
                      /\ valid_addresses[a][2] < valid_addresses[b][2]
    /\ \A p \in 1..MaxPasses :
          LET tried == PassAttempts(attempts, p) IN
             /\ Len(tried) <= Len(valid_addresses)
             /\ \A j \in 1..Len(tried) :
                   /\ tried[j].addr = valid_addresses[j]
                   /\ \A e \in 1..(j - 1) : ~tried[e].ok
    /\ \A j \in 1..Len(attempts) :
          /\ j < Len(attempts) => attempts[j].pass <= attempts[j + 1].pass
          /\ attempts[j].ok => j = Len(attempts) /\ try_pc = "returned" /\ try_result = "Ok"
    /\ try_result = "Ok" => attempts # <<>> /\ attempts[Len(attempts)].ok
C14_Witness ==
    /\ try_result = "Ok"
    /\ Len(valid_addresses) = 3
    /\ Len(attempts) = 5
    /\ attempts[5].addr = valid_addresses[2]

PerCallOps == {"publish", "subscribe", "un_subscribe", "request"}

\* C16: the step at which publish, subscribe, un_subscribe or request hands a
\* command to send_command and returns the send's error changes neither the connection state nor the connection, runs
\* no disconnect handler, and stops neither the monitor nor a reader.
C16_FailedSendKeepsConnection ==
    [][\A c \in Callers :
          (/\ pc[c] \in {"idle", "rq_pub"}
           /\ pc[c] = "idle" => calls' # calls
           /\ wire' # wire
           /\ pc'[c] = "idle"
           /\ result'[c].op \in PerCallOps
           /\ ~result'[c].ok) =>
             /\ state' = state
             /\ notified' = notified
             /\ conn' = conn
             /\ client_ref' = client_ref
             /\ pc'[Monitor] = pc[Monitor]
             /\ \A k \in Conns : pc'[Reader(k)] = pc[Reader(k)]]_vars
C16_Witness ==
    /\ pc[User] = "idle"
    /\ result[User].op = "publish"
    /\ ~result[User].ok
    /\ ~alive[conn_sink]
    /\ state = "Connected"
    /\ notified = 0
    /\ pc[Monitor] = "m_check"

\* the sid of the heartbeat inbox, and the heartbeat taken last
HbSid == item[Heartbeats]
HbMsg == sink[HbSid][rd[HbSid]]

\* the replies published for heartbeat m of the inbox subscribed under sid s
HeartbeatReplies(w, m, s) ==
    BagCardinality([f \in {g \in BagToSet(w) : g.op = "PUB" /\ g.sid = m /\ g.subject = s}
                      |-> CopiesIn(f, w)])

\* C17: taking a message from the heartbeat inbox publishes nothing by
\* itself; for a message with a reply subject the task's next step is one
\* publish to that reply subject of a PubMsg whose subject is the heartbeat
\* inbox, and it is then back at the loop; no other step publishes a
\* heartbeat reply; so no heartbeat is answered twice, and none that was not
\* taken, or carried no reply subject, is answered at all.
C17_HeartbeatReply ==
    /\ [][/\ pc[Heartbeats] = "hb_loop" => wire' = wire \/ pc'[Heartbeats] = "hb_loop"
          /\ (pc[Heartbeats] = "hb_pub" /\ pc'[Heartbeats] # "hb_pub") =>
                /\ wire' = wire (+) SetToBag({HeartbeatReply(HbMsg, HbSid)})
                /\ pc'[Heartbeats] = "hb_loop"
          /\ (pc[Heartbeats] # "hb_pub" \/ pc'[Heartbeats] = "hb_pub") =>
                \A k \in 1..Len(arrived) :
                   HeartbeatReplies(wire', k, HbSid) = HeartbeatReplies(wire, k, HbSid)]_vars
    /\ [](pc[Heartbeats] \in {"hb_loop", "hb_pub", "done"} =>
             \A k \in 1..Len(arrived) :
                /\ HeartbeatReplies(wire, k, HbSid) <= 1
                /\ HeartbeatReplies(wire, k, HbSid) = 1 =>
                      /\ arrived[k] = HbSid
                      /\ \E j \in 1..rd[HbSid] : sink[HbSid][j] = k
                      /\ pc[Heartbeats] = "hb_pub" => k # HbMsg)
C17_Witness ==
    /\ pc[Heartbeats] = "hb_loop"
    /\ rd[item[Heartbeats]] = 2
    /\ HeartbeatReplies(wire, 1, item[Heartbeats]) = 0
    /\ HeartbeatReplies(wire, 2, item[Heartbeats]) = 1

\* C18: un_subscribe of a sid with a record first removes the record, with
\* nothing published and no sentinel sent; its next step publishes the
\* UnsubscribeRequest to unsub_requests; the next puts the close sentinel in
\* the streaming sink; the last is the Core un_subscribe of the same sid, after
\* which the Core registry has no record for it.  For a sid without a record
\* it returns Ok and nothing else changes.
C18_StanUnsubscribeOrder ==
    [][/\ (pc[Stan] = "idle" /\ pc'[Stan] = "st_pub") =>
             /\ req'[Stan] \in stan_subscriptions
             /\ stan_subscriptions' = stan_subscriptions \ {req'[Stan]}
             /\ wire' = wire /\ stan_sink' = stan_sink /\ subscriptions' = subscriptions
       /\ (pc[Stan] = "st_pub" /\ pc'[Stan] # "st_pub") =>
             /\ pc'[Stan] = "st_close"
             /\ wire' = wire (+) SetToBag({Frame("PUB", req[Stan], UnsubRequests)})
             /\ req[Stan] \notin stan_subscriptions
             /\ stan_sink' = stan_sink /\ subscriptions' = subscriptions
       /\ (pc[Stan] = "st_close" /\ pc'[Stan] # "st_close") =>
             /\ pc'[Stan] = "st_unsub"
             /\ stan_sink' = [stan_sink EXCEPT ![req[Stan]] = Append(@, Close)]
             /\ wire' = wire /\ subscriptions' = subscriptions
       /\ (pc[Stan] = "st_unsub" /\ pc'[Stan] # "st_unsub") =>
             /\ pc'[Stan] = "idle"
             /\ req[Stan] \notin DOMAIN subscriptions'
             /\ req[Stan] \in DOMAIN subscriptions =>
                   wire' = wire (+) SetToBag({Frame("UNSUB", req[Stan], 0)})
             /\ stan_sink' = stan_sink
       /\ (/\ pc[Stan] = "idle" /\ pc'[Stan] = "idle"
           /\ result'[Stan] # result[Stan]
           /\ result'[Stan].op = "stan_un_subscribe") =>
             /\ result'[Stan].ok
             /\ wire' = wire /\ stan_sink' = stan_sink /\ subscriptions' = subscriptions
             /\ stan_subscriptions' = stan_subscriptions]_vars
C18_Witness ==
    /\ pc[Stan] = "idle"
    /\ result[Stan] = Ok("stan_un_subscribe")
    /\ \E s \in stan_recv :
          /\ s \notin stan_subscriptions
          /\ s \notin DOMAIN subscriptions
          /\ stan_sink[s] # <<>>
          /\ stan_sink[s][Len(stan_sink[s])] = Close
          /\ \E f \in BagToSet(wire) : f.op = "PUB" /\ f.sid = s /\ f.subject = UnsubRequests
          /\ UnsubCount(wire, s) = 1
          /\ state = "Connected"

\* C20: once the ConnectRequest has been handed to send_command, the SUB for
\* the heartbeat inbox has been too and the registry holds its record.
C20_HeartbeatInboxFirst ==
    (\E f \in BagToSet(wire) : f.op = "PUB" /\ stan_pc = "connect") =>
       /\ pc[Heartbeats] \notin {"off", "hb_sub"}
       /\ item[Heartbeats] \in DOMAIN subscriptions

\* the Acks for message m handed to send_command
AckCount(w, m) ==
    BagCardinality([f \in {g \in BagToSet(w) :
                               g.op = "PUB" /\ g.sid = m /\ g.subject = AckInbox}
                      |-> CopiesIn(f, w)])
\* the spawned ack tasks for message m that have not published yet
AckPending(q, m) == Cardinality({j \in 1..Len(q) : q[j] = m})

\* C19: a delivered message carries an ack handler exactly when the
\* subscription was made with manual_acks = false; an invocation spawns one
\* task and that task's step is one publish of the message's Ack to the
\* ack_inbox, so the Acks sent for a message, with the tasks still to run, are
\* as many as the handler invocations and acknowledge calls made for it; with
\* manual_acks = true there is no handler, no invocation, and the Acks of a
\* message are those of its acknowledge calls.
C19_AckHandlers ==
    /\ [](\A i \in 1..Len(delivered) :
             /\ delivered[i].ack_handler = ~manual_acks
             /\ delivered[i].sid \in stan_recv
             /\ arrived[delivered[i].msg] = delivered[i].sid
             /\ \A k \in 1..Len(delivered) : k # i => delivered[k].msg # delivered[i].msg
             /\ AckCount(wire, delivered[i].msg) + AckPending(ack_tasks, delivered[i].msg)
                   = delivered[i].invoked + delivered[i].acknowledged
             /\ manual_acks =>
                   /\ delivered[i].invoked = 0
                   /\ AckCount(wire, delivered[i].msg) = delivered[i].acknowledged)
    /\ [](\A m \in 1..Len(arrived) :
             AckCount(wire, m) + AckPending(ack_tasks, m) > 0 =>
                \E i \in 1..Len(delivered) : delivered[i].msg = m)
    /\ [][/\ Len(ack_tasks') < Len(ack_tasks) =>
                \E j \in 1..Len(ack_tasks) :
                   /\ wire' = wire (+) SetToBag({Ack(ack_tasks[j])})
                   /\ Len(ack_tasks') = Len(ack_tasks) - 1
          /\ Len(ack_tasks') > Len(ack_tasks) =>
                /\ wire' = wire
                /\ \E i \in 1..Len(delivered) :
                      /\ delivered[i].ack_handler
                      /\ ack_tasks' = Append(ack_tasks, delivered[i].msg)]_vars
C19_Witness ==
    /\ ~manual_acks
    /\ Len(delivered) = 1
    /\ delivered[1].invoked = 2
    /\ ack_tasks = <<>>
    /\ AckCount(wire, delivered[1].msg) = 2

\* C21: a step that puts a message in the sink of sid s is the routing step of
\* a reader whose MSG frame carries sid s, the registry holds a record for s at
\* that step, and the message goes to the end of the sink kept under s; the
\* routing step of a MSG frame whose sid has no record changes no sink.
C21_RegistryCoherence ==
    [][/\ \A s \in Sids :
             (sink'[s] # sink[s] /\ sink'[s][Len(sink'[s])] # Close) =>
                /\ s \in DOMAIN subscriptions
                /\ \E k \in Conns :
                      /\ pc[Reader(k)] = "route" /\ pc'[Reader(k)] = "read"
                      /\ item[Reader(k)].op = "MSG"
                      /\ item[Reader(k)].sid = s
                      /\ arrived[item[Reader(k)].n] = s
                      /\ sink'[s] = Append(sink[s], item[Reader(k)].n)
                /\ \A r \in Sids \ {s} : sink'[r] = sink[r]
       /\ \A k \in Conns :
             (/\ pc[Reader(k)] = "route" /\ pc'[Reader(k)] = "read"
              /\ item[Reader(k)].sid \notin DOMAIN subscriptions) => sink' = sink]_vars
C21_Witness ==
    /\ Len(arrived) = 3
    /\ arrived[2] = 1
    /\ {2, 3} \subseteq DOMAIN subscriptions
    /\ 1 \notin DOMAIN subscriptions
    /\ sink[1] = <<1, Close>>
    /\ sink[2] = <<>>
    /\ sink[3] = <<3>>
    /\ \A k \in Conns : pc[Reader(k)] # "route"

\* do_reconnect, line 273: the connections whose reader was started before the
\* last bump of the version counter (connection j + 1 is opened by the j-th
\* reconnect, just before its bump).
Stale(k) == k <= reconnect_version - InitialVersion

\* C22: the reader of a connection older than the last bump is never in the
\* middle of handling a frame, and its only step is to leave its loop, at the
\* first frame (or end of stream) it reads, with no sink, server_info, state
\* or command changed by that step.
C22_StaleReaderFenced ==
    /\ [](\A k \in Conns : Stale(k) => pc[Reader(k)] \in {"read", "exited"})
    /\ [][\A k \in Conns :
             (Stale(k) /\ pc'[Reader(k)] # pc[Reader(k)]) =>
                /\ pc[Reader(k)] = "read"
                /\ pc'[Reader(k)] = "exited"
                /\ sink' = sink
                /\ server_info' = server_info
                /\ wire' = wire
                /\ state' = state
                /\ subscriptions' = subscriptions]_vars
C22_Witness ==
    /\ reconnect_version = InitialVersion + 1
    /\ pc[Reader(1)] = "exited"
    /\ alive[1]
    /\ pc[Reader(2)] = "read"
    /\ 1 \in DOMAIN subscriptions
    /\ arrived = <<1>>
    /\ sink[1] = <<>>

\* C23: the step at which reconnect() returns from an attempt (one that set
\* Reconnecting from Disconnected) leaves the state Connected when it returns
\* Ok and Disconnected when it returns the error; and the state is
\* Reconnecting only while some attempt has not returned.
C23_ReconnectOutcome ==
    /\ [][\A c \in Callers :
             (pc[c] \in RcPcs /\ pc'[c] = "idle") =>
                /\ result'[c].op = "reconnect"
                /\ result'[c].ok => state' = "Connected"
                /\ ~result'[c].ok => state' = "Disconnected"]_vars
    /\ [](state = "Reconnecting" => Attempting # {})
C23_Witness ==
    /\ pc[User] = "idle"
    /\ result[User] = Ok("reconnect")
    /\ state = "Connected"
    /\ nconn = 2
    /\ ~closed

C25_PongFailureDisconnects ==
    [][\A k \in Conns :
          (/\ pc[Reader(k)] = "reset" /\ pc'[Reader(k)] # "reset"
           /\ item[Reader(k)].op = "PING"
           /\ ~send_ok
           /\ state = "Connected") =>
             \/ state' = "Disconnected"
             \/ pc'[Reader(k)] # "read"]_vars

\* C26: whenever the state is Connected the heartbeat monitor is still
\* running, after a successful reconnect as well as after the first start.
C26_MonitorWhileConnected ==
    state = "Connected" => pc[Monitor] # "done"

\* C27: there is no state in which a stop() waits for the write lock of the
\* self back-reference while a reconnect, holding its read lock, waits for
\* the state lock or the registry lock that this stop() holds, or for the
\* version lock that the reader calling this stop() holds.
C27_NoStopReconnectDeadlock ==
    \A t \in Tasks : \A c \in Callers :
        pc[t] = "stop3" =>
            /\ pc[c] \notin {"rc5", "rc6"}
            /\ ~(pc[c] = "rc3" /\ t \in Readers)

\* C28: in every delivery sink the close sentinel, once enqueued, is the
\* last item: no message is enqueued behind it, whatever the interleaving
\* of un_subscribe and stop with the routing of inbound MSG frames.
C28_SentinelLast ==
    \A s \in Sids : \A i \in 1..Len(sink[s]) :
        sink[s][i] = Close => i = Len(sink[s])
C28_Witness ==
    /\ Len(arrived) = 2
    /\ sink[1] = <<1, Close>>
    /\ \A k \in Conns : pc[Reader(k)] \notin {"reset", "route"}

\* C29: a subscribe call, which returns the sid it keyed the new record
\* with, stores under that key a command carrying the same sid and hands
\* send_command a SUB frame carrying the same sid, also when the command it
\* was given has an empty sid.
C29_SubFrameCarriesKey ==
    [][(pc' = pc /\ calls' = calls + 1 /\ nsid' = nsid + 1) =>
          /\ nsid' \in DOMAIN subscriptions'
          /\ subscriptions'[nsid'].sid = nsid'
          /\ \E f \in BagToSet(wire') :
                /\ f.op = "SUB"
                /\ f.sid = nsid'
                /\ CopiesIn(f, wire') > CopiesIn(f, wire)]_vars

\* C30: a subscribe call whose SUB frame could not be sent, and which
\* therefore returns an error, leaves the registry as it was before the call.
C30_FailedSubscribeLeavesRegistry ==
    [][\A c \in Callers :
          (/\ pc' = pc /\ calls' = calls + 1 /\ nsid' = nsid + 1
           /\ result'[c] = Err("subscribe")
           /\ ~send_ok) =>
             subscriptions' = subscriptions]_vars

\* C31: whenever a request that created its reply subscription returns, with
\* a message, with RequestStreamClosed or with the error of a failed PUB,
\* the registry holds no record for the reply sid of that request.
C31_RequestLeavesNoRecord ==
    [][\A c \in CallTasks :
          (pc[c] \in {"rq_pub", "rq_unsub"} /\ pc'[c] = "idle") =>
             req[c] \notin DOMAIN subscriptions']_vars

====
